---- MODULE Spec2Model ----
(***************************************************************************)
(* The projects/tasks CRUD API of src/projects (Django views over two      *)
(* models).  The persistent store is the pair of tables Project and Task;  *)
(* every view function is one atomic step from an idle server to a served  *)
(* request (the spec's single-request-per-invocation model), and Finish    *)
(* returns the server to idle.                                             *)
(*                                                                         *)
(* Text is a sequence of character codes, a JSON value is a tagged record, *)
(* a JSON object (payload, serialized record) is a function from keys to   *)
(* JSON values, a date is a record [year, month, day].                     *)
(***************************************************************************)
EXTENDS Integers, Sequences, FiniteSets, TLC

VARIABLES
    projects,          \* table Project: id -> row
    tasks,             \* table Task: id -> row (with project_id)
    next_project_id,   \* AutoField sequence of Project
    next_task_id,      \* AutoField sequence of Task
    request,           \* the request being served (NoRequest when idle)
    response           \* the response to it (NoResponse when idle)

vars == <<projects, tasks, next_project_id, next_task_id, request, response>>

(***************************************************************************)
(* Bounds of the model.                                                    *)
(***************************************************************************)
MaxProjects == 2       \* project ids ever generated
MaxTasks == 1          \* task ids ever generated

(***************************************************************************)
(* Field constraints of the models.                                        *)
(***************************************************************************)
name_max_length == 120
title_max_length == 200

(***************************************************************************)
(* JSON values.                                                            *)
(***************************************************************************)
JStr(s) == [t |-> "str", s |-> s, n |-> 0, b |-> FALSE]
JInt(n) == [t |-> "int", s |-> <<>>, n |-> n, b |-> FALSE]
JBool(b) == [t |-> "bool", s |-> <<>>, n |-> 0, b |-> b]

Repeat(c, n) == [i \in 1..n |-> c]

(***************************************************************************)
(* datetime.date: isoformat writes YYYY-MM-DD, fromisoformat reads exactly *)
(* that form and raises ValueError on anything else in a str, TypeError on *)
(* a value that is no str.                                                 *)
(***************************************************************************)
Dash == 45
DigitChar(d) == 48 + d
IsDigitChar(c) == c >= 48 /\ c <= 57
DigitOf(c) == c - 48

RECURSIVE Pad(_, _)
Pad(n, w) == IF w = 0 THEN <<>> ELSE Append(Pad(n \div 10, w - 1), DigitChar(n % 10))

RECURSIVE Digits(_)
Digits(s) == IF s = <<>> THEN 0 ELSE 10 * Digits(SubSeq(s, 1, Len(s) - 1)) + DigitOf(s[Len(s)])

AllDigits(s) == \A i \in 1..Len(s) : IsDigitChar(s[i])

IsLeap(y) == (y % 4 = 0 /\ y % 100 # 0) \/ y % 400 = 0

DaysInMonth(y, m) ==
    IF m = 2 THEN (IF IsLeap(y) THEN 29 ELSE 28)
    ELSE IF m \in {4, 6, 9, 11} THEN 30 ELSE 31

date_isoformat(d) ==
    Pad(d.year, 4) \o <<Dash>> \o Pad(d.month, 2) \o <<Dash>> \o Pad(d.day, 2)

NoDate == [year |-> 0, month |-> 0, day |-> 0]

date_fromisoformat(v) ==
    IF v.t # "str" THEN [exc |-> "TypeError", val |-> NoDate]
    ELSE LET s == v.s
             shaped == /\ Len(s) = 10
                       /\ s[5] = Dash /\ s[8] = Dash
                       /\ AllDigits(SubSeq(s, 1, 4))
                       /\ AllDigits(SubSeq(s, 6, 7))
                       /\ AllDigits(SubSeq(s, 9, 10))
             y == Digits(SubSeq(s, 1, 4))
             m == Digits(SubSeq(s, 6, 7))
             d == Digits(SubSeq(s, 9, 10))
         IN  IF /\ shaped
                /\ y >= 1
                /\ m >= 1 /\ m <= 12
                /\ d >= 1 /\ d <= DaysInMonth(y, m)
             THEN [exc |-> "", val |-> [year |-> y, month |-> m, day |-> d]]
             ELSE [exc |-> "ValueError", val |-> NoDate]

(***************************************************************************)
(* int() and bool() of a JSON value.                                       *)
(***************************************************************************)
py_int(v) ==
    CASE v.t = "int" -> [exc |-> "", val |-> v.n]
      [] v.t = "bool" -> [exc |-> "", val |-> IF v.b THEN 1 ELSE 0]
      [] v.t = "str" ->
            IF v.s # <<>> /\ AllDigits(v.s)
            THEN [exc |-> "", val |-> Digits(v.s)]
            ELSE [exc |-> "ValueError", val |-> 0]
      [] OTHER -> [exc |-> "TypeError", val |-> 0]

py_bool(v) ==
    CASE v.t = "int" -> v.n # 0
      [] v.t = "bool" -> v.b
      [] v.t = "str" -> v.s # <<>>
      [] OTHER -> FALSE

(***************************************************************************)
(* Request bodies and _parse_json.  A body is empty, bytes that are no     *)
(* UTF-8, text that is no JSON, or a JSON document: an array, a scalar or  *)
(* an object.                                                              *)
(***************************************************************************)
EmptyObject == <<>>

Body(kind, obj) == [kind |-> kind, obj |-> obj]

_parse_json(body) ==
    CASE body.kind = "empty" -> [exc |-> "", type |-> "dict", obj |-> EmptyObject]
      [] body.kind = "undecodable" ->
            [exc |-> "UnicodeDecodeError", type |-> "", obj |-> EmptyObject]
      [] body.kind = "invalid" -> [exc |-> "", type |-> "dict", obj |-> EmptyObject]
      [] body.kind = "array" -> [exc |-> "", type |-> "list", obj |-> EmptyObject]
      [] body.kind = "scalar" -> [exc |-> "", type |-> "scalar", obj |-> EmptyObject]
      [] OTHER -> [exc |-> "", type |-> "dict", obj |-> body.obj]

\* `k in payload`: a key test on a dict, a membership test on a list (the
\* modelled array is empty), TypeError on a scalar.
Contains(parsed, k) ==
    CASE parsed.type = "dict" -> [exc |-> "", val |-> k \in DOMAIN parsed.obj]
      [] parsed.type = "list" -> [exc |-> "", val |-> FALSE]
      [] OTHER -> [exc |-> "TypeError", val |-> FALSE]

(***************************************************************************)
(* Responses.                                                              *)
(***************************************************************************)
Response(status, body) == [status |-> status, body |-> body]

_bad_request(message) == Response(400, [error |-> message])

Http404 == Response(404, [exception |-> "Http404"])

HttpResponseNotAllowed(methods) == Response(405, [allow |-> methods])

\* An exception no handler catches: Django's server error response.
ServerError(exc) == Response(500, [exception |-> exc])

MissingMessage == "Missing required fields."
IsoMessage == "Invalid isoformat string"
IntMessage == "invalid literal for int() with base 10"
NameTooLong == "{'name': ['Ensure this value has at most 120 characters']}"
NameBlank == "{'name': ['This field cannot be blank.']}"
TitleTooLong == "{'title': ['Ensure this value has at most 200 characters']}"
TitleBlank == "{'title': ['This field cannot be blank.']}"

(***************************************************************************)
(* Serializers.                                                            *)
(***************************************************************************)
\* A serializer that writes the date day first.
p_to_dict_day_first(id, project) ==
    [id |-> JInt(id),
     name |-> JStr(project.name),
     description |-> JStr(project.description),
     start_date |-> JStr(Pad(project.start_date.day, 2) \o <<Dash>>
                         \o Pad(project.start_date.month, 2) \o <<Dash>>
                         \o Pad(project.start_date.year, 4)),
     active |-> JBool(project.active),
     priority |-> JInt(project.priority)]

p_to_dict(id, project) ==
    [id |-> JInt(id),
     name |-> JStr(project.name),
     description |-> JStr(project.description),
     start_date |-> JStr(date_isoformat(project.start_date)),
     active |-> JBool(project.active),
     priority |-> JInt(project.priority)]

t_to_dict(id, task) ==
    [id |-> JInt(id),
     project_id |-> JInt(task.project_id),
     title |-> JStr(task.title),
     notes |-> JStr(task.notes),
     due_date |-> JStr(date_isoformat(task.due_date)),
     completed |-> JBool(task.completed),
     estimate_hours |-> JInt(task.estimate_hours)]

(***************************************************************************)
(* Model.full_clean: the CharField checks (blank=False, max_length); the   *)
(* other fields hold values of the field's type once coercion succeeded.   *)
(***************************************************************************)
project_full_clean(project) ==
    IF project.name = <<>> THEN NameBlank
    ELSE IF Len(project.name) > name_max_length THEN NameTooLong
    ELSE ""

task_full_clean(task) ==
    IF task.title = <<>> THEN TitleBlank
    ELSE IF Len(task.title) > title_max_length THEN TitleTooLong
    ELSE ""

(***************************************************************************)
(* Orderings of the list queries.  Text compares by character code, dates  *)
(* by (year, month, day); rows with equal keys come out by id.             *)
(***************************************************************************)
\* a sorts before b: at the first position where they differ a has ended or
\* holds the smaller code.
TextLess(a, b) ==
    \E i \in 1..Len(b) :
        /\ i > Len(a) \/ a[i] < b[i]
        /\ \A j \in 1..(i - 1) : j <= Len(a) /\ a[j] = b[j]

DateLess(a, b) ==
    \/ a.year < b.year
    \/ a.year = b.year /\ a.month < b.month
    \/ a.year = b.year /\ a.month = b.month /\ a.day < b.day

\* An ordering by ascending priority.
ProjectBeforeAscending(i, j) ==
    LET p == projects[i]
        q == projects[j]
    IN  \/ p.priority < q.priority
        \/ p.priority = q.priority /\ TextLess(p.name, q.name)
        \/ p.priority = q.priority /\ p.name = q.name /\ i <= j

\* order_by("-priority", "name")
ProjectBefore(i, j) ==
    LET p == projects[i]
        q == projects[j]
    IN  \/ p.priority > q.priority
        \/ p.priority = q.priority /\ TextLess(p.name, q.name)
        \/ p.priority = q.priority /\ p.name = q.name /\ i <= j

\* order_by("due_date")
TaskBefore(i, j) ==
    LET t == tasks[i]
        u == tasks[j]
    IN  \/ DateLess(t.due_date, u.due_date)
        \/ t.due_date = u.due_date /\ i <= j

RECURSIVE projects_ordered(_)
projects_ordered(ids) ==
    IF ids = {} THEN <<>>
    ELSE LET first == CHOOSE i \in ids : \A j \in ids : ProjectBefore(i, j)
         IN  <<first>> \o projects_ordered(ids \ {first})

RECURSIVE tasks_ordered(_)
tasks_ordered(ids) ==
    IF ids = {} THEN <<>>
    ELSE LET first == CHOOSE i \in ids : \A j \in ids : TaskBefore(i, j)
         IN  <<first>> \o tasks_ordered(ids \ {first})

\* project.tasks: the related manager of the foreign key
project_tasks(project_id) == {t \in DOMAIN tasks : tasks[t].project_id = project_id}

project_list == LET ids == projects_ordered(DOMAIN projects)
                IN  [i \in 1..Len(ids) |-> p_to_dict(ids[i], projects[ids[i]])]

task_list(project_id) ==
    LET ids == tasks_ordered(project_tasks(project_id))
    IN  [i \in 1..Len(ids) |-> t_to_dict(ids[i], tasks[ids[i]])]

(***************************************************************************)
(* The outcome of a view: the response and the store it leaves.            *)
(***************************************************************************)
Outcome(resp, ps, ts, npid, ntid) ==
    [response |-> resp, projects |-> ps, tasks |-> ts,
     next_project_id |-> npid, next_task_id |-> ntid]

\* The view returns (or raises) without writing.
Reply(resp) == Outcome(resp, projects, tasks, next_project_id, next_task_id)

Remove(table, ids) == [i \in DOMAIN table \ ids |-> table[i]]

Put(table, id, row) == [i \in DOMAIN table \cup {id} |-> IF i = id THEN row ELSE table[i]]

\* A create that leaves the priority to the model's default.
Project_objects_create_default_priority(row) ==
    LET kept == [row EXCEPT !.priority = 1]
    IN  Outcome(Response(201, [project |-> p_to_dict(next_project_id, kept)]),
                Put(projects, next_project_id, kept), tasks,
                next_project_id + 1, next_task_id)

\* Project.objects.create / Task.objects.create: an INSERT of the row under
\* the next id; Model.save does not run full_clean, and the default SQLite
\* backend stores text of any length (a backend that enforces the column
\* width raises DataError instead, which no view catches).
Project_objects_create(row) ==
    Outcome(Response(201, [project |-> p_to_dict(next_project_id, row)]),
            Put(projects, next_project_id, row), tasks,
            next_project_id + 1, next_task_id)

Task_objects_create(row) ==
    Outcome(Response(201, [task |-> t_to_dict(next_task_id, row)]),
            projects, Put(tasks, next_task_id, row),
            next_project_id, next_task_id + 1)

\* project.save() / task.save(): an UPDATE of every column of the row.
project_save(id, row) ==
    Outcome(Response(200, [project |-> p_to_dict(id, row)]),
            Put(projects, id, row), tasks, next_project_id, next_task_id)

task_save(id, row) ==
    Outcome(Response(200, [task |-> t_to_dict(id, row)]),
            projects, Put(tasks, id, row), next_project_id, next_task_id)

\* A delete that leaves the project's tasks behind.
project_delete_without_cascade(id) ==
    Outcome(Response(204, EmptyObject),
            Remove(projects, {id}), tasks, next_project_id, next_task_id)

\* project.delete(): on_delete=CASCADE removes the project's tasks with it.
project_delete(id) ==
    Outcome(Response(204, EmptyObject),
            Remove(projects, {id}), Remove(tasks, project_tasks(id)),
            next_project_id, next_task_id)

task_delete(id) ==
    Outcome(Response(204, EmptyObject),
            projects, Remove(tasks, {id}), next_project_id, next_task_id)

\* A save that runs before the validation whose failure is reported.
project_save_then_clean(id, row) ==
    LET errors == project_full_clean(row)
    IN  IF errors # ""
        THEN Outcome(_bad_request(errors), Put(projects, id, row), tasks,
                     next_project_id, next_task_id)
        ELSE project_save(id, row)

\* try: full_clean(); save(); 200 / except ValidationError: 400
project_clean_and_save(id, row) ==
    LET errors == project_full_clean(row)
    IN  IF errors # "" THEN Reply(_bad_request(errors)) ELSE project_save(id, row)

task_clean_and_save(id, row) ==
    LET errors == task_full_clean(row)
    IN  IF errors # "" THEN Reply(_bad_request(errors)) ELSE task_save(id, row)

\* A list that leaves PUT out.
task_resource_allowed_short == <<"DELETE">>

\* The allowed-method list each view hands to HttpResponseNotAllowed.
projects_collection_allowed == <<"GET", "POST">>
project_resource_allowed == <<"GET", "PUT", "DELETE">>
project_tasks_collection_allowed == <<"GET", "POST">>
task_resource_allowed == <<"PUT", "DELETE">>

ProjectRequired == {"name", "description", "start_date", "active", "priority"}
TaskRequired == {"title", "notes", "due_date", "completed", "estimate_hours"}

\* The first exception of two coercions evaluated in order.
FirstExc(a, b) == IF a.exc # "" THEN a.exc ELSE b.exc

(***************************************************************************)
(* views.projects_collection                                               *)
(***************************************************************************)
projects_collection(method, body) ==
    IF method = "GET" THEN Reply(Response(200, [projects |-> project_list]))
    ELSE IF method = "POST" THEN
        LET parsed == _parse_json(body)
            probe == Contains(parsed, "name")
        IN  IF parsed.exc # "" THEN Reply(ServerError(parsed.exc))
            ELSE IF probe.exc # "" THEN Reply(ServerError(probe.exc))
            ELSE IF ~ \A k \in ProjectRequired : Contains(parsed, k).val
                 THEN Reply(_bad_request(MissingMessage))
            ELSE LET payload == parsed.obj
                     d == date_fromisoformat(payload.start_date)
                     n == py_int(payload.priority)
                     exc == FirstExc(d, n)
                     row == [name |-> payload.name.s,
                             description |-> payload.description.s,
                             start_date |-> d.val,
                             active |-> py_bool(payload.active),
                             priority |-> n.val]
                 IN  IF exc = "ValueError"
                     THEN Reply(_bad_request(IF d.exc # "" THEN IsoMessage ELSE IntMessage))
                     ELSE IF exc # "" THEN Reply(ServerError(exc))
                     ELSE Project_objects_create(row)
    ELSE Reply(HttpResponseNotAllowed(projects_collection_allowed))

(***************************************************************************)
(* views.project_resource                                                  *)
(***************************************************************************)
project_resource(method, project_id, body) ==
    IF project_id \notin DOMAIN projects THEN Reply(Http404)
    ELSE IF method = "GET" THEN
        Reply(Response(200,
            [project |-> ("tasks" :> task_list(project_id))
                           @@ p_to_dict(project_id, projects[project_id])]))
    ELSE IF method = "PUT" THEN
        LET parsed == _parse_json(body)
            probe == Contains(parsed, "name")
            has(k) == Contains(parsed, k).val
            payload == parsed.obj
            old == projects[project_id]
            d == IF has("start_date") THEN date_fromisoformat(payload.start_date)
                 ELSE [exc |-> "", val |-> old.start_date]
            n == IF has("priority") THEN py_int(payload.priority)
                 ELSE [exc |-> "", val |-> old.priority]
            exc == FirstExc(d, n)
            row == [name |-> IF has("name") THEN payload.name.s ELSE old.name,
                    description |-> IF has("description") THEN payload.description.s
                                    ELSE old.description,
                    start_date |-> d.val,
                    active |-> IF has("active") THEN py_bool(payload.active)
                               ELSE old.active,
                    priority |-> n.val]
        IN  IF parsed.exc # "" THEN Reply(ServerError(parsed.exc))
            ELSE IF probe.exc # "" THEN Reply(ServerError(probe.exc))
            ELSE IF exc # "" THEN Reply(ServerError(exc))
            ELSE project_clean_and_save(project_id, row)
    ELSE IF method = "DELETE" THEN project_delete(project_id)
    ELSE Reply(HttpResponseNotAllowed(project_resource_allowed))

(***************************************************************************)
(* views.project_tasks_collection                                          *)
(***************************************************************************)
project_tasks_collection(method, project_id, body) ==
    IF project_id \notin DOMAIN projects THEN Reply(Http404)
    ELSE IF method = "GET" THEN Reply(Response(200, [tasks |-> task_list(project_id)]))
    ELSE IF method = "POST" THEN
        LET parsed == _parse_json(body)
            probe == Contains(parsed, "title")
        IN  IF parsed.exc # "" THEN Reply(ServerError(parsed.exc))
            ELSE IF probe.exc # "" THEN Reply(ServerError(probe.exc))
            ELSE IF ~ \A k \in TaskRequired : Contains(parsed, k).val
                 THEN Reply(_bad_request(MissingMessage))
            ELSE LET payload == parsed.obj
                     d == date_fromisoformat(payload.due_date)
                     n == py_int(payload.estimate_hours)
                     exc == FirstExc(d, n)
                     row == [project_id |-> project_id,
                             title |-> payload.title.s,
                             notes |-> payload.notes.s,
                             due_date |-> d.val,
                             completed |-> py_bool(payload.completed),
                             estimate_hours |-> n.val]
                 IN  IF exc = "ValueError"
                     THEN Reply(_bad_request(IF d.exc # "" THEN IsoMessage ELSE IntMessage))
                     ELSE IF exc # "" THEN Reply(ServerError(exc))
                     ELSE Task_objects_create(row)
    ELSE Reply(HttpResponseNotAllowed(project_tasks_collection_allowed))

(***************************************************************************)
(* views.task_resource                                                     *)
(***************************************************************************)
task_resource(method, task_id, body) ==
    IF task_id \notin DOMAIN tasks THEN Reply(Http404)
    ELSE IF method = "PUT" THEN
        LET parsed == _parse_json(body)
            probe == Contains(parsed, "title")
            has(k) == Contains(parsed, k).val
            payload == parsed.obj
            old == tasks[task_id]
            d == IF has("due_date") THEN date_fromisoformat(payload.due_date)
                 ELSE [exc |-> "", val |-> old.due_date]
            n == IF has("estimate_hours") THEN py_int(payload.estimate_hours)
                 ELSE [exc |-> "", val |-> old.estimate_hours]
            exc == FirstExc(d, n)
            row == [project_id |-> old.project_id,
                    title |-> IF has("title") THEN payload.title.s ELSE old.title,
                    notes |-> IF has("notes") THEN payload.notes.s ELSE old.notes,
                    due_date |-> d.val,
                    completed |-> IF has("completed") THEN py_bool(payload.completed)
                                  ELSE old.completed,
                    estimate_hours |-> n.val]
        IN  IF parsed.exc # "" THEN Reply(ServerError(parsed.exc))
            ELSE IF probe.exc # "" THEN Reply(ServerError(probe.exc))
            ELSE IF exc # "" THEN Reply(ServerError(exc))
            ELSE task_clean_and_save(task_id, row)
    ELSE IF method = "DELETE" THEN task_delete(task_id)
    ELSE Reply(HttpResponseNotAllowed(task_resource_allowed))

(***************************************************************************)
(* The requests the model sends.                                           *)
(***************************************************************************)
NameA == <<97>>
LongName == Repeat(97, name_max_length + 1)
TitleA == <<116>>
LongTitle == Repeat(116, title_max_length + 1)
Day1 == [year |-> 2024, month |-> 1, day |-> 31]
NotADay == <<50, 48, 50, 51, 45, 48, 50, 45, 50, 57>>      \* "2023-02-29"

FieldValues ==
    [name |-> {JStr(NameA), JStr(LongName)},
     description |-> {JStr(<<>>)},
     start_date |-> {JStr(date_isoformat(Day1)), JStr(NotADay)},
     active |-> {JBool(TRUE), JInt(1)},
     priority |-> {JInt(1), JStr(<<50>>), JStr(<<120>>)},
     id |-> {JInt(7)},
     title |-> {JStr(TitleA), JStr(LongTitle)},
     notes |-> {JStr(<<>>)},
     due_date |-> {JStr(date_isoformat(Day1)), JStr(NotADay)},
     completed |-> {JBool(FALSE), JInt(0)},
     estimate_hours |-> {JInt(1), JStr(<<120>>)},
     project_id |-> {JInt(2)}]

\* The JSON objects over the keys K, each key with one of its values.
RECURSIVE Objects(_)
Objects(K) ==
    IF K = {} THEN {EmptyObject}
    ELSE LET k == CHOOSE x \in K : TRUE
         IN  {(k :> v) @@ o : v \in FieldValues[k], o \in Objects(K \ {k})}

\* The payloads: no key, one key (recognized or not), every required key.
Payloads(required, extra) ==
    UNION {Objects(K) : K \in {{}, required} \cup {{k} : k \in required \cup extra}}

OtherBodies == {Body(k, EmptyObject) : k \in {"empty", "undecodable", "invalid", "array", "scalar"}}

ProjectBodies == OtherBodies \cup {Body("object", o) : o \in Payloads(ProjectRequired, {"id"})}

TaskBodies == OtherBodies \cup {Body("object", o) : o \in Payloads(TaskRequired, {"project_id"})}

NoBody == Body("empty", EmptyObject)

\* The bodies sent with a write on a resource: a view answers 404 before it
\* reads the body, so a missing resource is sent the empty body only.
BodiesFor(stored, bodies) == IF stored THEN bodies ELSE {NoBody}

Methods == {"GET", "POST", "PUT", "DELETE", "PATCH"}

ProjectIds == 1..MaxProjects
TaskIds == 1..MaxTasks

Request(route, method, id, body) ==
    [route |-> route, method |-> method, id |-> id, body |-> body]

NoRequest == Request("", "", 0, NoBody)
NoResponse == Response(0, EmptyObject)

(***************************************************************************)
(* The state machine.                                                      *)
(***************************************************************************)
Init ==
    /\ projects = <<>>
    /\ tasks = <<>>
    /\ next_project_id = 1
    /\ next_task_id = 1
    /\ request = NoRequest
    /\ response = NoResponse

\* No request is being served.
Idle == request = NoRequest

\* urls.urlpatterns hands an incoming request to its view; the view's
\* outcome becomes the store and the response.
Serve(req, out) ==
    /\ out.next_project_id <= MaxProjects + 1
    /\ out.next_task_id <= MaxTasks + 1
    /\ request' = req
    /\ response' = out.response
    /\ projects' = out.projects
    /\ tasks' = out.tasks
    /\ next_project_id' = out.next_project_id
    /\ next_task_id' = out.next_task_id

projects_collection_GET ==
    /\ Idle
    /\ Serve(Request("projects_collection", "GET", 0, NoBody),
              projects_collection("GET", NoBody))

projects_collection_POST ==
    /\ Idle
    /\ \E body \in ProjectBodies :
            Serve(Request("projects_collection", "POST", 0, body),
                  projects_collection("POST", body))

projects_collection_other ==
    /\ Idle
    /\ \E method \in Methods \ {"GET", "POST"} :
            Serve(Request("projects_collection", method, 0, NoBody),
                  projects_collection(method, NoBody))

project_resource_GET ==
    /\ Idle
    /\ \E id \in ProjectIds :
            Serve(Request("project_resource", "GET", id, NoBody),
                  project_resource("GET", id, NoBody))

project_resource_PUT ==
    /\ Idle
    /\ \E id \in ProjectIds : \E body \in BodiesFor(id \in DOMAIN projects, ProjectBodies) :
            Serve(Request("project_resource", "PUT", id, body),
                  project_resource("PUT", id, body))

project_resource_DELETE ==
    /\ Idle
    /\ \E id \in ProjectIds :
            Serve(Request("project_resource", "DELETE", id, NoBody),
                  project_resource("DELETE", id, NoBody))

project_resource_other ==
    /\ Idle
    /\ \E id \in ProjectIds, method \in Methods \ {"GET", "PUT", "DELETE"} :
            Serve(Request("project_resource", method, id, NoBody),
                  project_resource(method, id, NoBody))

project_tasks_collection_GET ==
    /\ Idle
    /\ \E id \in ProjectIds :
            Serve(Request("project_tasks_collection", "GET", id, NoBody),
                  project_tasks_collection("GET", id, NoBody))

project_tasks_collection_POST ==
    /\ Idle
    /\ \E id \in ProjectIds : \E body \in BodiesFor(id \in DOMAIN projects, TaskBodies) :
            Serve(Request("project_tasks_collection", "POST", id, body),
                  project_tasks_collection("POST", id, body))

project_tasks_collection_other ==
    /\ Idle
    /\ \E id \in ProjectIds, method \in Methods \ {"GET", "POST"} :
            Serve(Request("project_tasks_collection", method, id, NoBody),
                  project_tasks_collection(method, id, NoBody))

task_resource_PUT ==
    /\ Idle
    /\ \E id \in TaskIds : \E body \in BodiesFor(id \in DOMAIN tasks, TaskBodies) :
            Serve(Request("task_resource", "PUT", id, body),
                  task_resource("PUT", id, body))

task_resource_DELETE ==
    /\ Idle
    /\ \E id \in TaskIds :
            Serve(Request("task_resource", "DELETE", id, NoBody),
                  task_resource("DELETE", id, NoBody))

task_resource_other ==
    /\ Idle
    /\ \E id \in TaskIds, method \in Methods \ {"PUT", "DELETE"} :
            Serve(Request("task_resource", method, id, NoBody),
                  task_resource(method, id, NoBody))

\* The response has gone out; the server waits for the next request.
Finish ==
    /\ request # NoRequest
    /\ request' = NoRequest
    /\ response' = NoResponse
    /\ UNCHANGED <<projects, tasks, next_project_id, next_task_id>>

Next ==
    \/ projects_collection_GET
    \/ projects_collection_POST
    \/ projects_collection_other
    \/ project_resource_GET
    \/ project_resource_PUT
    \/ project_resource_DELETE
    \/ project_resource_other
    \/ project_tasks_collection_GET
    \/ project_tasks_collection_POST
    \/ project_tasks_collection_other
    \/ task_resource_PUT
    \/ task_resource_DELETE
    \/ task_resource_other
    \/ Finish

Spec == Init /\ [][Next]_vars

(***************************************************************************)
(* Properties.                                                             *)
(***************************************************************************)
Serving == request = NoRequest /\ request' # NoRequest

Served(route, method) ==
    request # NoRequest /\ request.route = route /\ request.method = method

StoreUnchanged == projects' = projects /\ tasks' = tasks

TaskRefs == \A t \in DOMAIN tasks : tasks[t].project_id \in DOMAIN projects

\* A successful project DELETE removes the project and, in the same step,
\* every task of it.
CascadeStep ==
    (/\ Serving
     /\ request'.route = "project_resource"
     /\ request'.method = "DELETE"
     /\ response'.status = 204)
    => /\ request'.id \in DOMAIN projects
       /\ request'.id \notin DOMAIN projects'
       /\ \A t \in DOMAIN tasks :
              tasks[t].project_id = request'.id => t \notin DOMAIN tasks'

\* A task id that was generated and is gone never comes back.
GoneStaysGone ==
    /\ DOMAIN tasks' \subseteq 1..(next_task_id' - 1)
    /\ \A t \in 1..(next_task_id - 1) : t \notin DOMAIN tasks => t \notin DOMAIN tasks'

\* Any request on the task route for an id that is not stored is answered 404.
MissingTask404 ==
    (Serving /\ request'.route = "task_resource" /\ request'.id \notin DOMAIN tasks)
    => response'.status = 404

\* C1: every stored task refers to a stored project at all times; a
\* successful DELETE of a project removes it and all its tasks in one step,
\* and from then on every request on such a task's id is answered 404.
C1_ReferentialIntegrity ==
    [](TaskRefs) /\ [][CascadeStep /\ GoneStaysGone /\ MissingTask404]_vars

\* A project DELETE answered 204 in a store where a task had been created
\* and no task remains.
C1_Witness ==
    /\ Served("project_resource", "DELETE")
    /\ response.status = 204
    /\ next_task_id > 1
    /\ tasks = <<>>

\* C5: a request that is not answered 200, 201 or 204 leaves the stored
\* projects and tasks, and all their field values, as they were.
C5_AllOrNothing ==
    [][(Serving /\ response'.status \notin {200, 201, 204}) => StoreUnchanged]_vars

\* A multi-field PUT answered 400 whose payload holds a valid priority that
\* differs from the stored one.
C5_Witness ==
    /\ Served("project_resource", "PUT")
    /\ response.status = 400
    /\ request.body.kind = "object"
    /\ "priority" \in DOMAIN request.body.obj
    /\ py_int(request.body.obj.priority).exc = ""
    /\ py_int(request.body.obj.priority).val # projects[request.id].priority

\* The methods each route supports, as the specification lists them.
Supported(route) ==
    CASE route = "projects_collection" -> <<"GET", "POST">>
      [] route = "project_resource" -> <<"GET", "PUT", "DELETE">>
      [] route = "project_tasks_collection" -> <<"GET", "POST">>
      [] route = "task_resource" -> <<"PUT", "DELETE">>

Range(seq) == {seq[i] : i \in 1..Len(seq)}

Unsupported(req) == req # NoRequest /\ req.method \notin Range(Supported(req.route))

\* The resource a request's path names is stored (the collection of all
\* projects always is).
Exists(req) ==
    CASE req.route = "projects_collection" -> TRUE
      [] req.route = "task_resource" -> req.id \in DOMAIN tasks
      [] OTHER -> req.id \in DOMAIN projects

\* C7 as stated: every request with a method its route does not support is
\* answered 405 with the route's allowed-method list, and the store is
\* unchanged.
C7_Original ==
    [][(Serving /\ Unsupported(request'))
        => /\ response' = Response(405, [allow |-> Supported(request'.route)])
           /\ StoreUnchanged]_vars

\* C7 amended: such a request is answered 405 with the route's
\* allowed-method list when the resource its path names is stored, and 404
\* when it is not; the store is unchanged either way.
C7_NotAllowed ==
    [][(Serving /\ Unsupported(request'))
        => /\ response' = IF Exists(request')
                          THEN Response(405, [allow |-> Supported(request'.route)])
                          ELSE Response(404, [exception |-> "Http404"])
           /\ StoreUnchanged]_vars

\* A GET on the task route, which supports PUT and DELETE only, for a stored
\* task.
C7_Witness ==
    /\ Served("task_resource", "GET")
    /\ request.id \in DOMAIN tasks
    /\ response.status = 405

\* The listing holds each stored project once, as serialized.
ListsEveryProject(list) ==
    /\ {list[i].id.n : i \in 1..Len(list)} = DOMAIN projects
    /\ Len(list) = Cardinality(DOMAIN projects)
    /\ \A i \in 1..Len(list) : list[i] = p_to_dict(list[i].id.n, projects[list[i].id.n])

\* Priority never rises along the listing, and among equal priorities the
\* name never falls.
ListOrdered(list) ==
    \A i \in 1..Len(list), j \in 1..Len(list) :
        i < j => /\ list[i].priority.n >= list[j].priority.n
                 /\ list[i].priority.n = list[j].priority.n
                        => ~TextLess(list[j].name.s, list[i].name.s)

\* C8: GET /api/projects/ returns every stored project exactly once, by
\* descending priority and, among equal priorities, ascending name, and does
\* not modify the store.
C8_ListOrder ==
    /\ [](Served("projects_collection", "GET")
            => /\ response.status = 200
               /\ ListsEveryProject(response.body.projects)
               /\ ListOrdered(response.body.projects))
    /\ [][(Serving /\ request'.route = "projects_collection" /\ request'.method = "GET")
            => UNCHANGED <<projects, tasks, next_project_id, next_task_id>>]_vars

\* A listing of two projects of different priority where the one created
\* later comes first.
C8_Witness ==
    /\ Served("projects_collection", "GET")
    /\ Len(response.body.projects) = 2
    /\ response.body.projects[1].priority.n > response.body.projects[2].priority.n
    /\ response.body.projects[1].id.n > response.body.projects[2].id.n

\* The write requests: the two creates and the two updates.
IsCreate(req) ==
    req.method = "POST" /\ req.route \in {"projects_collection", "project_tasks_collection"}

IsUpdate(req) ==
    req.method = "PUT" /\ req.route \in {"project_resource", "task_resource"}

RequiredOf(req) ==
    IF req.route \in {"projects_collection", "project_resource"}
    THEN ProjectRequired ELSE TaskRequired

\* The body is empty or malformed: not JSON text, or not text at all.
EmptyOrMalformed(body) == body.kind \in {"empty", "invalid", "undecodable"}

IsObject(body) == body.kind = "object"

\* A supplied field fails coercion (integer, ISO date) or validation (length).
FailsCoercion(o) ==
    \/ \E k \in DOMAIN o \cap {"priority", "estimate_hours"} : py_int(o[k]).exc # ""
    \/ \E k \in DOMAIN o \cap {"start_date", "due_date"} : date_fromisoformat(o[k]).exc # ""

FailsValidation(o) ==
    \/ "name" \in DOMAIN o /\ (o.name.s = <<>> \/ Len(o.name.s) > name_max_length)
    \/ "title" \in DOMAIN o /\ (o.title.s = <<>> \/ Len(o.title.s) > title_max_length)

\* C2: a write on an existing resource with a supplied field that fails
\* coercion or validation is answered 400 (for a create, once every required
\* key is present), never anything else.
C2_CoercionFailure400 ==
    (/\ request # NoRequest
     /\ IsCreate(request) \/ IsUpdate(request)
     /\ Exists(request)
     /\ IsObject(request.body)
     /\ IsCreate(request) => RequiredOf(request) \subseteq DOMAIN request.body.obj
     /\ FailsCoercion(request.body.obj) \/ FailsValidation(request.body.obj))
    => /\ response.status = 400
       /\ response.body.error # MissingMessage

\* C3: every stored project name has at most 120 characters and every
\* stored task title at most 200.
C3_LengthsEnforced ==
    /\ \A i \in DOMAIN projects : Len(projects[i].name) <= name_max_length
    /\ \A t \in DOMAIN tasks : Len(tasks[t].title) <= title_max_length

\* The fields of the updated row whose keys the payload lacks, and every
\* other row, are as before.
ProjectFrame(id, keys) ==
    /\ DOMAIN projects' = DOMAIN projects
    /\ \A i \in DOMAIN projects \ {id} : projects'[i] = projects[i]
    /\ \A k \in ProjectRequired \ keys : projects'[id][k] = projects[id][k]
    /\ tasks' = tasks

TaskFrame(id, keys) ==
    /\ DOMAIN tasks' = DOMAIN tasks
    /\ \A t \in DOMAIN tasks \ {id} : tasks'[t] = tasks[t]
    /\ \A k \in (TaskRequired \cup {"project_id"}) \ keys : tasks'[id][k] = tasks[id][k]
    /\ projects' = projects

\* C4: a successful PUT changes only the recognized fields whose keys the
\* payload holds; a PUT on a stored record whose payload holds no recognized
\* key (an empty or malformed body included) changes nothing and is
\* answered 200.
C4_PartialUpdate ==
    [][(Serving /\ IsUpdate(request') /\ Exists(request'))
        => LET body == request'.body
               keys == DOMAIN body.obj \cap RequiredOf(request')
           IN  /\ response'.status = 200
                    => IF request'.route = "project_resource"
                       THEN ProjectFrame(request'.id, keys)
                       ELSE TaskFrame(request'.id, keys)
               /\ ((EmptyOrMalformed(body) \/ IsObject(body)) /\ keys = {})
                    => StoreUnchanged /\ response'.status = 200]_vars

\* C6: a create whose payload lacks a required key, or whose body is empty
\* or malformed, is answered 400 "Missing required fields." and creates
\* nothing, whatever the keys that are present hold.
C6_MissingFields ==
    [][(/\ Serving
        /\ IsCreate(request')
        /\ Exists(request')
        /\ \/ EmptyOrMalformed(request'.body)
           \/ /\ IsObject(request'.body)
              /\ ~(RequiredOf(request') \subseteq DOMAIN request'.body.obj))
        => /\ response' = Response(400, [error |-> "Missing required fields."])
           /\ StoreUnchanged]_vars

\* C9 as stated: the body of an accepted create echoes the five payload
\* values exactly, and the stored row holds them.
C9_Original ==
    (Served("projects_collection", "POST") /\ response.status = 201)
    => LET b == response.body.project
       IN  /\ \A k \in ProjectRequired : b[k] = request.body.obj[k]
           /\ b.id.n \in DOMAIN projects
           /\ p_to_dict(b.id.n, projects[b.id.n]) = b

\* The text is written YYYY-MM-DD.
Canonical(s) ==
    /\ Len(s) = 10
    /\ \A i \in 1..10 : IF i \in {5, 8} THEN s[i] = Dash ELSE IsDigitChar(s[i])

\* C9 amended: the body of an accepted create holds the payload's name and
\* description, the ISO form of its start_date, bool() of its active and
\* int() of its priority (the payload's own values where active is a JSON
\* boolean, priority a JSON integer and start_date is written YYYY-MM-DD),
\* with an id no stored project had; the stored row holds the same values
\* and no other row changes.
C9_CreateEcho ==
    [][(/\ Serving
        /\ request'.route = "projects_collection"
        /\ request'.method = "POST"
        /\ response'.status = 201)
        => LET o == request'.body.obj
               b == response'.body.project
               id == b.id.n
           IN  /\ b.name = o.name
               /\ b.description = o.description
               /\ b.start_date.t = "str"
               /\ date_fromisoformat(b.start_date) = date_fromisoformat(o.start_date)
               /\ Canonical(b.start_date.s)
               /\ Canonical(o.start_date.s) => b.start_date = o.start_date
               /\ b.active = JBool(py_bool(o.active))
               /\ o.active.t = "bool" => b.active = o.active
               /\ b.priority = JInt(py_int(o.priority).val)
               /\ o.priority.t = "int" => b.priority = o.priority
               /\ id \notin DOMAIN projects
               /\ DOMAIN projects' = DOMAIN projects \cup {id}
               /\ \A i \in DOMAIN projects : projects'[i] = projects[i]
               /\ p_to_dict(id, projects'[id]) = b
               /\ tasks' = tasks]_vars

\* An accepted create whose priority came as the text "2" and whose body
\* holds the integer 2.
C9_Witness ==
    /\ Served("projects_collection", "POST")
    /\ response.status = 201
    /\ request.body.obj.priority = JStr(<<50>>)
    /\ response.body.project.priority = JInt(2)

WithoutId(dict) == [k \in DOMAIN dict \ {"id"} |-> dict[k]]

\* C10: for every stored project, its serialized form without the id is a
\* create payload that is accepted with 201 and stores, under a new id, a
\* row equal to it in all five fields.
C10_RoundTrip ==
    \A i \in DOMAIN projects :
        LET dict == p_to_dict(i, projects[i])
            out == projects_collection("POST", Body("object", WithoutId(dict)))
        IN  /\ out.response.status = 201
            /\ LET id == out.response.body.project.id.n
               IN  /\ id \notin DOMAIN projects
                   /\ id \in DOMAIN out.projects
                   /\ out.projects[id] = projects[i]
                   /\ WithoutId(out.response.body.project) = WithoutId(dict)

\* A create was served whose payload is the serialized form, without id, of
\* another stored project, and the two rows are equal.
C10_Witness ==
    /\ Served("projects_collection", "POST")
    /\ response.status = 201
    /\ \E i \in DOMAIN projects :
           /\ i # response.body.project.id.n
           /\ request.body.obj = WithoutId(p_to_dict(i, projects[i]))
           /\ projects[response.body.project.id.n] = projects[i]

====
